---- MODULE Spec2Model ----
(***************************************************************************)
(* Scope hierarchy, identifier resolution and deferred emission of the     *)
(* rs-proto code generator (src/code_gen).                                 *)
(*                                                                         *)
(* Strings are sequences of tokens ("Foo", "Bar", "_", "."); the tokens    *)
(* are a prefix-free code, so two strings are equal exactly when their     *)
(* token sequences are.                                                    *)
(***************************************************************************)
EXTENDS Integers, Sequences, FiniteSets, TLC

VARIABLES
    program,    \* Program.types, flattened in pre-order: decl -> [parent, name, kind, fields]
    nodes,      \* arena of ProtoTypeHierarchyNode; node 1 is the head once built
    stack,      \* call stack of from_program / ProtoTypeHierarchyNode::new
    pc,         \* "start" | "building" | "built" | "ready" | "flushing" | "returned"
    envs,       \* arena of GeneratorEnvironment; env 1 is the root environment
    call,       \* the resolve call in progress: [op, env, path, resolved, result]
    next_type,  \* gen_code: index of the next top-level type
    result,     \* gen_code: the units pushed so far
    fstack,     \* call stack of flush_queued_ops_deep
    outcome     \* what gen_code returned, once it has

vars == <<program, nodes, stack, pc, envs, call, next_type, result, fstack, outcome>>

\* the variables of the generation run
genvars == <<next_type, result, fstack, outcome>>

----------------------------------------------------------------------------
(* Bounds *)

MaxDecls == 3
MaxPathLen == 3
MaxEnvs == 2
MaxFields == 1
MaxFieldDecls == 2
MaxChildren == 2
MaxQueued == 3
MaxNested == 4

----------------------------------------------------------------------------
(* Strings *)

Foo == <<"Foo">>
Bar == <<"Bar">>
Foo_Bar == <<"Foo", "_", "Bar">>
\* the local names of the declarations resolved against
NameSet == {Foo, Bar}

Baz == <<"Baz">>
Qux == <<"Qux">>
Quux == <<"Quux">>

\* distinct names for the declarations of a schema, by position
TypeNames == <<Foo, Bar, Baz, Qux, Quux>>
TypeName(d) == TypeNames[((d - 1) % Len(TypeNames)) + 1]
\* the local names of the declarations that are only named
QualifiedNameSet == {Foo, Bar, Foo_Bar}

Kinds == {"Message", "Enum"}

\* Option::None for node and declaration references
None == 0

\* Option<String>: a sequence holding no string or one
NoString == <<>>
Some(s) == <<s>>

\* str::split('.')
RECURSIVE Split(_)
Split(s) ==
    IF s = <<>> THEN << <<>> >>
    ELSE LET r == Split(Tail(s)) IN
         IF Head(s) = "." THEN << <<>> >> \o r
         ELSE << <<Head(s)>> \o r[1] >> \o Tail(r)

\* ProtoIdentifierPath::get_path_parts
get_path_parts(path) == Split(path)

\* the source text of a dotted path with the given segments
RECURSIVE JoinDot(_)
JoinDot(parts) ==
    IF Len(parts) = 1 THEN parts[1]
    ELSE parts[1] \o <<".">> \o JoinDot(Tail(parts))

SeqsUpTo(S, n) == UNION {[1..k -> S] : k \in 1..n}

\* the identifier paths handed to the resolver
Paths == {JoinDot(p) : p \in SeqsUpTo(NameSet, MaxPathLen)}

----------------------------------------------------------------------------
(* The declaration tree *)

Decls == 1..Len(program)

RECURSIVE DeclAncestors(_, _)
\* the declarations enclosing d in p, d included
DeclAncestors(p, d) ==
    IF d = 0 THEN {} ELSE {d} \cup DeclAncestors(p, p[d].parent)

\* p lists a declaration forest in pre-order, and only messages nest types
WellFormed(p) ==
    /\ \A d \in 1..Len(p) :
          /\ p[d].parent < d
          /\ d > 1 => p[d].parent \in DeclAncestors(p, d - 1) \cup {0}
          /\ p[d].parent # 0 => p[p[d].parent].kind = "Message"

\* the programs of at most MaxDecls declarations without fields
Programs(names) ==
    UNION {{p \in [1..n -> [parent : 0..(MaxDecls - 1), name : names,
                             kind : Kinds, fields : {<<>>}]] :
                WellFormed(p)} : n \in 0..MaxDecls}

\* the schema of messages with the given parents, in pre-order
Schema(parents) ==
    [d \in 1..Len(parents) |->
        [parent |-> parents[d], name |-> TypeName(d), kind |-> "Message", fields |-> <<>>]]

\* the schemas of at most MaxNested messages, all named differently
Schemas ==
    UNION {{Schema(parents) : parents \in {q \in [1..n -> 0..(n - 1)] : WellFormed(Schema(q))}}
             : n \in 1..MaxNested}

\* ProtoType::get_name
get_name(d) == program[d].name

RECURSIVE TypesFrom(_, _)
TypesFrom(d, i) ==
    IF i > Len(program) THEN <<>>
    ELSE IF program[i].parent = d THEN <<i>> \o TypesFrom(d, i + 1)
    ELSE TypesFrom(d, i + 1)

RECURSIVE TypesBackFrom(_, _)
TypesBackFrom(d, i) ==
    IF i > Len(program) THEN <<>>
    ELSE IF program[i].parent = d THEN TypesBackFrom(d, i + 1) \o <<i>>
    ELSE TypesBackFrom(d, i + 1)

\* the nested types taken last to first
TypesReversed(d) == TypesBackFrom(d, 1)

\* Message.types of declaration d (Program.types for d = 0), in declaration order
Types(d) == TypesFrom(d, 1)

----------------------------------------------------------------------------
(* Building the hierarchy *)

\* ProtoTypeHierarchyNode::new_head
new_head ==
    [parent |-> None, proto_type |-> None,
     fully_qualified_identifier |-> NoString, children |-> <<>>]

\* the naming policy with the two parts swapped
QualifyInnerFirst(d, parent) ==
    IF nodes[parent].fully_qualified_identifier # NoString
    THEN get_name(d) \o <<"_">> \o nodes[parent].fully_qualified_identifier[1]
    ELSE get_name(d)

\* the default naming policy
Qualify(d, parent) ==
    IF nodes[parent].fully_qualified_identifier # NoString
    THEN nodes[parent].fully_qualified_identifier[1] \o <<"_">> \o get_name(d)
    ELSE get_name(d)

Top == stack[Len(stack)]

\* ProtoTypeHierarchy::from_program: create the head and start the loop
FromProgramBegin ==
    /\ pc = "start"
    /\ nodes' = <<new_head>>
    /\ stack' = <<[node |-> 1, decl |-> 0, next |-> 1, acc |-> <<>>]>>
    /\ pc' = "building"
    /\ UNCHANGED <<program, envs, call, genvars>>

\* a construction that creates the node first and would name it afterwards
NodeNewUnnamed ==
    /\ pc = "building"
    /\ Top.next <= Len(Types(Top.decl))
    /\ LET d == Types(Top.decl)[Top.next]
           n == Len(nodes) + 1
       IN /\ nodes' = Append(nodes,
                 [parent |-> Top.node, proto_type |-> d,
                  fully_qualified_identifier |-> NoString,
                  children |-> <<>>])
          /\ stack' = Append(stack, [node |-> n, decl |-> d, next |-> 1, acc |-> <<>>])
    /\ UNCHANGED <<program, pc, envs, call, genvars>>

\* ProtoTypeHierarchyNode::new up to the recursion into the nested types
NodeNew ==
    /\ pc = "building"
    /\ Top.next <= Len(Types(Top.decl))
    /\ LET d == Types(Top.decl)[Top.next]
           n == Len(nodes) + 1
       IN /\ nodes' = Append(nodes,
                 [parent |-> Top.node, proto_type |-> d,
                  fully_qualified_identifier |-> Some(Qualify(d, Top.node)),
                  children |-> <<>>])
          /\ stack' = Append(stack, [node |-> n, decl |-> d, next |-> 1, acc |-> <<>>])
    /\ UNCHANGED <<program, pc, envs, call, genvars>>

\* ProtoTypeHierarchyNode::new: the nested types are collected, the node is returned
NodeReturn ==
    /\ pc = "building"
    /\ Len(stack) > 1
    /\ Top.next > Len(Types(Top.decl))
    /\ LET f == Top
           g == stack[Len(stack) - 1]
           kids == IF program[f.decl].kind = "Message" THEN f.acc ELSE <<>>
           withKids == [nodes EXCEPT ![f.node].children = kids]
       IN /\ nodes' = IF g.decl = 0
                      THEN [withKids EXCEPT ![g.node].children = Append(@, f.node)]
                      ELSE withKids
          /\ stack' = Append(SubSeq(stack, 1, Len(stack) - 2),
                             [g EXCEPT !.next = @ + 1,
                                       !.acc = IF g.decl = 0 THEN @ ELSE Append(@, f.node)])
    /\ UNCHANGED <<program, pc, envs, call, genvars>>

\* ProtoTypeHierarchy::from_program returns the hierarchy
FromProgramEnd ==
    /\ pc = "building"
    /\ Len(stack) = 1
    /\ Top.next > Len(Types(0))
    /\ stack' = <<>>
    /\ pc' = "built"
    /\ UNCHANGED <<program, nodes, envs, call, genvars>>

----------------------------------------------------------------------------
(* Environments *)

head == 1

\* gen_code has not returned
NoOutcome == [panic |-> "", value |-> <<"running">>]

\* no call is in progress
NoCall == [op |-> "none", env |-> 0, path |-> <<>>, resolved |-> None,
           result |-> [panic |-> "", value |-> <<>>]]

\* the outcome of a call that returns a value or aborts
Returned(s) == [panic |-> "", value |-> s]
Panicked(msg) == [panic |-> msg, value |-> <<>>]

\* a fresh environment standing at a scope node
NewEnvironment(type_context) ==
    [type_context |-> type_context, queued_outputs |-> <<>>,
     queued_ops |-> <<>>, children |-> <<>>]

\* GeneratorEnvironment::new
GeneratorEnvironmentNew ==
    /\ pc = "built"
    /\ envs' = <<NewEnvironment(head)>>
    /\ pc' = "ready"
    /\ UNCHANGED <<program, nodes, stack, call, genvars>>

RECURSIVE DeclEq(_, _)
\* #[derive(PartialEq)] on ProtoType: structural equality of two declarations
DeclEq(a, b) ==
    /\ program[a].kind = program[b].kind
    /\ program[a].name = program[b].name
    /\ program[a].fields = program[b].fields
    /\ Len(Types(a)) = Len(Types(b))
    /\ \A i \in 1..Len(Types(a)) : DeclEq(Types(a)[i], Types(b)[i])

RECURSIVE find_type_node_rec(_, _)
RECURSIVE FirstFound(_, _, _)
\* the loop over node.children of find_type_node_rec
FirstFound(kids, i, d) ==
    IF i > Len(kids) THEN None
    ELSE LET r == find_type_node_rec(kids[i], d) IN
         IF r # None THEN r ELSE FirstFound(kids, i + 1, d)

\* ProtoTypeHierarchy::find_type_node_rec
find_type_node_rec(node, d) ==
    IF nodes[node].proto_type # None /\ DeclEq(nodes[node].proto_type, d)
    THEN node
    ELSE FirstFound(nodes[node].children, 1, d)

\* ProtoTypeHierarchy::find_type_node
find_type_node(d) == find_type_node_rec(head, d)

\* a new_child that moves the caller into the scope of the child
new_child_entering(es, e, d) ==
    Append([es EXCEPT ![e].children = Append(@, Len(es) + 1),
                      ![e].type_context = find_type_node(d)],
           NewEnvironment(find_type_node(d)))

\* GeneratorEnvironment::new_child on environment e of the arena es: the
\* child is registered with e and is the last environment of the result
new_child(es, e, d) ==
    Append([es EXCEPT ![e].children = Append(@, Len(es) + 1)],
           NewEnvironment(find_type_node(d)))

\* a new_child that hangs the node it found under the caller's scope node
NewChildGrafting(e, d) ==
    /\ pc = "ready"
    /\ call.op = "none"
    /\ find_type_node(d) # None
    /\ envs' = new_child(envs, e, d)
    /\ nodes' = [nodes EXCEPT ![envs[e].type_context].children = Append(@, find_type_node(d))]
    /\ UNCHANGED <<program, stack, pc, call, genvars>>

NewChild(e, d) ==
    /\ pc = "ready"
    /\ call.op = "none"
    /\ find_type_node(d) # None
    /\ envs' = new_child(envs, e, d)
    /\ UNCHANGED <<program, nodes, stack, pc, call, genvars>>

RECURSIVE DeclValue(_)
\* the ProtoType value of declaration d: what PartialEq compares
DeclValue(d) ==
    [kind |-> program[d].kind, name |-> program[d].name, fields |-> program[d].fields,
     types |-> [i \in 1..Len(Types(d)) |-> DeclValue(Types(d)[i])]]

\* ProtoType values a caller builds itself: empty messages and enums
ForeignDecls ==
    {[kind |-> k, name |-> n, fields |-> <<>>, types |-> <<>>] : k \in Kinds, n \in NameSet}

RECURSIVE find_foreign_rec(_, _)
RECURSIVE FirstFoundForeign(_, _, _)
FirstFoundForeign(kids, i, proto_type) ==
    IF i > Len(kids) THEN None
    ELSE LET r == find_foreign_rec(kids[i], proto_type) IN
         IF r # None THEN r ELSE FirstFoundForeign(kids, i + 1, proto_type)

\* ProtoTypeHierarchy::find_type_node_rec for a ProtoType given by value
find_foreign_rec(node, proto_type) ==
    IF nodes[node].proto_type # None /\ DeclValue(nodes[node].proto_type) = proto_type
    THEN node
    ELSE FirstFoundForeign(nodes[node].children, 1, proto_type)

\* ProtoTypeHierarchy::find_type_node for a ProtoType given by value
find_foreign(proto_type) == find_foreign_rec(head, proto_type)

\* new_child that registers the child before it looks the type up
new_child_registers_first(es, e, proto_type) ==
    LET registered == Append([es EXCEPT ![e].children = Append(@, Len(es) + 1)],
                             NewEnvironment(find_foreign(proto_type)))
    IN IF find_foreign(proto_type) = None
       THEN [result |-> Panicked("Failed to find type"), envs |-> registered]
       ELSE [result |-> Returned(<<Len(es) + 1>>), envs |-> registered]

\* GeneratorEnvironment::new_child for a ProtoType given by value: the abort
\* or the new environment, and the environments afterwards
new_child_foreign(es, e, proto_type) ==
    LET type_context == find_foreign(proto_type)
    IN IF type_context = None
       THEN [result |-> Panicked("Failed to find type"), envs |-> es]
       ELSE [result |-> Returned(<<Len(es) + 1>>),
             envs |-> Append([es EXCEPT ![e].children = Append(@, Len(es) + 1)],
                             NewEnvironment(type_context))]

NewChildForeign(e, proto_type) ==
    /\ pc = "ready"
    /\ call.op = "none"
    /\ envs' = new_child_foreign(envs, e, proto_type).envs
    /\ call' = [op |-> "new_child", env |-> e, path |-> <<>>, resolved |-> None,
                result |-> new_child_foreign(envs, e, proto_type).result]
    /\ UNCHANGED <<program, nodes, stack, pc, genvars>>

----------------------------------------------------------------------------
(* Queues *)

\* the text a caller queues: it names the environment and counts the entries
\* queued there since the queue was last empty
Output(e, k) == <<e, k>>

RECURSIVE QueuedFrom(_, _)
\* the number of entries queued on the environments i..Len(es)
QueuedFrom(es, i) ==
    IF i > Len(es) THEN 0
    ELSE Len(es[i].queued_outputs) + Len(es[i].queued_ops) + QueuedFrom(es, i + 1)

\* a queue_output on a queue that the whole tree shares
queue_output_shared(es, e, output) ==
    [x \in 1..Len(es) |-> [es[x] EXCEPT !.queued_outputs = Append(@, output)]]

\* GeneratorEnvironment::queue_output
queue_output(es, e, output) == [es EXCEPT ![e].queued_outputs = Append(@, output)]

QueueOutput(e) ==
    /\ pc = "ready"
    /\ call.op = "none"
    /\ QueuedFrom(envs, 1) < MaxQueued
    /\ envs' = queue_output(envs, e, Output(e, Len(envs[e].queued_outputs) + 1))
    /\ UNCHANGED <<program, nodes, stack, pc, call, genvars>>

RECURSIVE Reverse(_)
Reverse(q) == IF q = <<>> THEN <<>> ELSE Append(Reverse(Tail(q)), Head(q))

\* a flush that takes the entries from the end of the queue
flush_from_the_end(es, e) ==
    [result |-> Reverse(es[e].queued_outputs),
     envs |-> [es EXCEPT ![e].queued_outputs = <<>>]]

\* GeneratorEnvironment::flush_queued_outputs: the drained outputs and the
\* environments afterwards
flush_queued_outputs(es, e) ==
    [result |-> es[e].queued_outputs,
     envs |-> [es EXCEPT ![e].queued_outputs = <<>>]]

FlushQueuedOutputs(e) ==
    /\ pc = "ready"
    /\ call.op = "none"
    /\ envs' = flush_queued_outputs(envs, e).envs
    /\ call' = [op |-> "flush_queued_outputs", env |-> e, path |-> <<>>, resolved |-> None,
                result |-> Returned(flush_queued_outputs(envs, e).result)]
    /\ UNCHANGED <<program, nodes, stack, pc, genvars>>

RECURSIVE flush_queued_outputs_deep(_, _)
RECURSIVE flush_children_deep(_, _, _)

\* a deep flush that lets go of the child environments it has flushed
flush_deep_releasing(es, e) ==
    LET own == flush_queued_outputs(es, e)
        below == flush_children_deep(own.envs, es[e].children, 1)
    IN [result |-> own.result \o below.result,
        envs |-> [below.envs EXCEPT ![e].children = <<>>]]

\* a deep flush that visits the children before the environment itself
flush_children_first(es, e) ==
    LET below == flush_children_deep(es, es[e].children, 1)
        own == flush_queued_outputs(below.envs, e)
    IN [result |-> below.result \o own.result, envs |-> own.envs]

\* self.children.iter().flat_map(|child| child.borrow_mut().flush_queued_outputs_deep())
flush_children_deep(es, children, i) ==
    IF i > Len(children)
    THEN [result |-> <<>>, envs |-> es]
    ELSE LET child == flush_queued_outputs_deep(es, children[i])
             rest == flush_children_deep(child.envs, children, i + 1)
         IN [result |-> child.result \o rest.result, envs |-> rest.envs]

\* GeneratorEnvironment::flush_queued_outputs_deep
flush_queued_outputs_deep(es, e) ==
    LET own == flush_queued_outputs(es, e)
        below == flush_children_deep(own.envs, es[e].children, 1)
    IN [result |-> own.result \o below.result, envs |-> below.envs]

FlushQueuedOutputsDeep(e) ==
    /\ pc = "ready"
    /\ call.op = "none"
    /\ envs' = flush_queued_outputs_deep(envs, e).envs
    /\ call' = [op |-> "flush_queued_outputs_deep", env |-> e, path |-> <<>>,
                resolved |-> None,
                result |-> Returned(flush_queued_outputs_deep(envs, e).result)]
    /\ UNCHANGED <<program, nodes, stack, pc, genvars>>

\* Result::Err of a queued operation, handed on by `?`
Err(e) == [panic |-> "", value |-> <<>>, err |-> e]

\* the call returned Ok
IsOk(r) == r.panic = "" /\ "err" \notin DOMAIN r

\* a queued operation of a caller of the environment: a closure that gives
\* its text or fails with it
Thunk(e, k, fails) == [label |-> Output(e, k), fails |-> fails, decl |-> None]

\* the operation gen_message queues for a nested type: a closure that
\* generates declaration d in the environment it is invoked with
GenThunk(e, k, d) == [label |-> Output(e, k), fails |-> FALSE, decl |-> d]

RECURSIVE CountBelow(_)
\* the number of declarations nested in d, at any depth
CountBelow(d) ==
    LET types == Types(d)
        below[i \in 0..Len(types)] ==
            IF i = 0 THEN 0 ELSE below[i - 1] + 1 + CountBelow(types[i])
    IN below[Len(types)]

RECURSIVE ToCreateFrom(_, _)
\* the number of environments that the operations queued on the
\* environments i..Len(es) will create when they run
ToCreateFrom(es, i) ==
    IF i > Len(es) THEN 0
    ELSE LET queued_ops == es[i].queued_ops
             creates[k \in 0..Len(queued_ops)] ==
                 IF k = 0 THEN 0
                 ELSE creates[k - 1] + (IF queued_ops[k].decl = None THEN 0
                                        ELSE CountBelow(queued_ops[k].decl))
         IN creates[Len(queued_ops)] + ToCreateFrom(es, i + 1)

\* there is room for n more environments
Room(n) == Len(envs) + ToCreateFrom(envs, 1) + n <= MaxChildren + 1

\* GeneratorEnvironment::queue_op
queue_op(es, e, op) == [es EXCEPT ![e].queued_ops = Append(@, op)]

QueueOp(e, fails) ==
    /\ pc = "ready"
    /\ call.op = "none"
    /\ QueuedFrom(envs, 1) < MaxQueued
    /\ envs' = queue_op(envs, e, Thunk(e, Len(envs[e].queued_ops) + 1, fails))
    /\ UNCHANGED <<program, nodes, stack, pc, call, genvars>>

\* the operation is queued on e behind a generating operation for d
QueueGenOp(e, d) ==
    /\ pc = "ready"
    /\ call.op = "none"
    /\ QueuedFrom(envs, 1) < MaxQueued
    /\ Room(CountBelow(d))
    /\ envs' = queue_op(envs, e, GenThunk(e, Len(envs[e].queued_ops) + 1, d))
    /\ UNCHANGED <<program, nodes, stack, pc, call, genvars>>

RECURSIVE queue_gen_children(_, _, _, _)
\* gen_message: for proto_type in &message.types, a child environment with
\* the queued operation that generates the nested type
queue_gen_children(es, e, types, k) ==
    IF k > Len(types) THEN es
    ELSE LET withChild == new_child(es, e, types[k])
             child == Len(withChild)
         IN queue_gen_children(queue_op(withChild, child, GenThunk(child, 0, types[k])),
                               e, types, k + 1)

\* op(self): the operation runs with environment e; it gives its text, or
\* fails, and a generating operation leaves the child environments of the
\* nested types behind
invoke(es, e, op) ==
    IF op.fails
    THEN [result |-> Err(op.label), envs |-> es]
    ELSE [result |-> Returned(op.label),
          envs |-> IF op.decl = None THEN es
                   ELSE queue_gen_children(es, e, Types(op.decl), 1)]

RECURSIVE flush_queued_ops_loop(_, _, _)
\* while let Some(op) = self.queued_ops.pop() { results.push(op(self)?) }
flush_queued_ops_loop(es, e, results) ==
    LET queued_ops == es[e].queued_ops
        op == queued_ops[Len(queued_ops)]
        popped == [es EXCEPT ![e].queued_ops = SubSeq(queued_ops, 1, Len(queued_ops) - 1)]
        invoked == invoke(popped, e, op)
    IN IF queued_ops = <<>>
       THEN [result |-> Returned(results), envs |-> es]
       ELSE IF ~IsOk(invoked.result)
            THEN invoked
            ELSE flush_queued_ops_loop(invoked.envs, e, Append(results, invoked.result.value))

\* GeneratorEnvironment::flush_queued_ops
flush_queued_ops(es, e) == flush_queued_ops_loop(es, e, <<>>)

FlushQueuedOps(e) ==
    /\ pc = "ready"
    /\ call.op = "none"
    /\ envs' = flush_queued_ops(envs, e).envs
    /\ call' = [op |-> "flush_queued_ops", env |-> e, path |-> <<>>, resolved |-> None,
                result |-> flush_queued_ops(envs, e).result]
    /\ UNCHANGED <<program, nodes, stack, pc, genvars>>

RECURSIVE flush_queued_ops_deep(_, _)
RECURSIVE flush_ops_of_children(_, _, _, _)

\* a deep flush that goes through the children the environment had when
\* the flush began
flush_ops_deep_of_old_children(es, e) ==
    LET own == flush_queued_ops(es, e)
    IN IF ~IsOk(own.result) THEN own
       ELSE flush_ops_of_children(own.envs, es[e].children, 1, own.result.value)

\* for child in &self.children { results.extend(child.borrow_mut().flush_queued_ops_deep()?) }
flush_ops_of_children(es, children, i, results) ==
    IF i > Len(children)
    THEN [result |-> Returned(results), envs |-> es]
    ELSE LET child == flush_queued_ops_deep(es, children[i])
         IN IF ~IsOk(child.result) THEN child
            ELSE flush_ops_of_children(child.envs, children, i + 1,
                                       results \o child.result.value)

\* GeneratorEnvironment::flush_queued_ops_deep
flush_queued_ops_deep(es, e) ==
    LET own == flush_queued_ops(es, e)
    IN IF ~IsOk(own.result) THEN own
       ELSE flush_ops_of_children(own.envs, own.envs[e].children, 1, own.result.value)

FlushQueuedOpsDeep(e) ==
    /\ pc = "ready"
    /\ call.op = "none"
    /\ envs' = flush_queued_ops_deep(envs, e).envs
    /\ call' = [op |-> "flush_queued_ops_deep", env |-> e, path |-> <<>>, resolved |-> None,
                result |-> flush_queued_ops_deep(envs, e).result]
    /\ UNCHANGED <<program, nodes, stack, pc, genvars>>

----------------------------------------------------------------------------
(* Resolution *)

\* the first child of node whose declaration is named identifier, or None
RECURSIVE ChildNamed(_, _, _)
ChildNamed(kids, i, identifier) ==
    IF i > Len(kids) THEN None
    ELSE IF nodes[kids[i]].proto_type # None
            /\ get_name(nodes[kids[i]].proto_type) = identifier
         THEN kids[i]
         ELSE ChildNamed(kids, i + 1, identifier)

\* the lookup without the upward walk: the context and its children only
resolve_without_walk(identifier, curr) ==
    IF curr = None THEN None
    ELSE IF nodes[curr].proto_type # None
            /\ get_name(nodes[curr].proto_type) = identifier
         THEN curr
         ELSE ChildNamed(nodes[curr].children, 1, identifier)

RECURSIVE resolve_settling_on_root(_, _)
\* a walk that gives the root node when no scope up to the root has the name
resolve_settling_on_root(identifier, curr) ==
    IF resolve_without_walk(identifier, curr) # None
    THEN resolve_without_walk(identifier, curr)
    ELSE IF nodes[curr].parent = None THEN curr
         ELSE resolve_settling_on_root(identifier, nodes[curr].parent)

\* GeneratorEnvironment::resolve_proto_type_relative_to_context
RECURSIVE resolve_proto_type_relative_to_context(_, _)
resolve_proto_type_relative_to_context(identifier, curr) ==
    IF curr = None THEN None
    ELSE IF nodes[curr].proto_type # None
            /\ get_name(nodes[curr].proto_type) = identifier
         THEN curr
         ELSE IF ChildNamed(nodes[curr].children, 1, identifier) # None
              THEN ChildNamed(nodes[curr].children, 1, identifier)
              ELSE resolve_proto_type_relative_to_context(identifier, nodes[curr].parent)

\* the accumulator of the fold is an Option<Option<node>>:
\* AccNone is None, Some(None) is None (0) and Some(Some(n)) is n
AccNone == -1

\* the closure folded over the path parts by resolve_proto_type
FoldStep(acc, identifier, type_context) ==
    IF acc = AccNone
    THEN resolve_proto_type_relative_to_context(identifier, type_context)
    ELSE IF acc = None THEN AccNone
         ELSE resolve_proto_type_relative_to_context(identifier, acc)

RECURSIVE Fold(_, _, _, _)
Fold(parts, i, acc, type_context) ==
    IF i > Len(parts) THEN acc
    ELSE Fold(parts, i + 1, FoldStep(acc, parts[i], type_context), type_context)

\* Option::unwrap of None aborts
Panic == -1

\* GeneratorEnvironment::resolve_proto_type: a node, None, or Panic
resolve_proto_type(type_context, path) ==
    LET acc == Fold(get_path_parts(path), 1, AccNone, type_context)
    IN IF acc = AccNone THEN Panic ELSE acc

\* GeneratorEnvironment::resolve_identifier_path
resolve_identifier_path(type_context, path) ==
    LET resolved_type == resolve_proto_type(type_context, path)
    IN IF resolved_type = Panic
       THEN Panicked("unwrap on None")
       ELSE IF resolved_type = None
       THEN Panicked("Failed to find identifier")
       ELSE IF nodes[resolved_type].fully_qualified_identifier = NoString
       THEN Panicked("expected fully qualified identifier on non-root node")
       ELSE Returned(nodes[resolved_type].fully_qualified_identifier[1])

\* the walk stays on the node it is on
walk_in_place(curr) == curr

\* curr = node.borrow().parent.clone()
walk_up(curr) == nodes[curr].parent

\* no walk is running
NoWalk == [curr |-> None, visited |-> <<>>, again |-> FALSE]

\* the state of resolve_proto_type between two steps: the fold is at path
\* part `part` with accumulator acc, and the walk for that part, when one is
\* running, is at node curr after it passed the nodes of visited
InResolve(scope, path, part, acc, walk) ==
    [op |-> "resolve_proto_type", env |-> scope, path |-> path, resolved |-> acc,
     result |-> [part |-> part, walking |-> walk # NoWalk, walk |-> walk]]

\* resolve_proto_type is called with a path on the scope node
ResolveBegin(scope, path) ==
    /\ pc = "built"
    /\ call.op = "none"
    /\ call' = InResolve(scope, path, 1, AccNone, NoWalk)
    /\ UNCHANGED <<program, nodes, stack, pc, envs, genvars>>

\* the fold takes the next path part: the closure starts the walk at the
\* scope node or at the node found for the part before, or hands None on
FoldNext ==
    /\ call.op = "resolve_proto_type"
    /\ ~call.result.walking
    /\ call.result.part <= Len(get_path_parts(call.path))
    /\ call' = IF call.resolved = AccNone
               THEN InResolve(call.env, call.path, call.result.part, call.resolved,
                              [curr |-> call.env, visited |-> <<>>, again |-> FALSE])
               ELSE IF call.resolved = None
               THEN InResolve(call.env, call.path, call.result.part + 1, AccNone, NoWalk)
               ELSE InResolve(call.env, call.path, call.result.part, call.resolved,
                              [curr |-> call.resolved, visited |-> <<>>, again |-> FALSE])
    /\ UNCHANGED <<program, nodes, stack, pc, envs, genvars>>

\* one turn of the loop of resolve_proto_type_relative_to_context
WalkStep ==
    /\ call.op = "resolve_proto_type"
    /\ call.result.walking
    /\ LET walk == call.result.walk
           curr == walk.curr
           identifier == get_path_parts(call.path)[call.result.part]
       IN call' =
            IF curr = None \/ resolve_without_walk(identifier, curr) # None
            THEN InResolve(call.env, call.path, call.result.part + 1,
                           resolve_without_walk(identifier, curr), NoWalk)
            ELSE InResolve(call.env, call.path, call.result.part, call.resolved,
                           [curr |-> walk_up(curr),
                            visited |-> IF \E i \in 1..Len(walk.visited) : walk.visited[i] = curr
                                        THEN walk.visited
                                        ELSE Append(walk.visited, curr),
                            again |-> walk.again
                                        \/ \E i \in 1..Len(walk.visited) : walk.visited[i] = curr])
    /\ UNCHANGED <<program, nodes, stack, pc, envs, genvars>>

\* the fold is through the path: .unwrap()
ResolveEnd ==
    /\ call.op = "resolve_proto_type"
    /\ ~call.result.walking
    /\ call.result.part > Len(get_path_parts(call.path))
    /\ call' = [op |-> "resolved", env |-> call.env, path |-> call.path,
                resolved |-> IF call.resolved = AccNone THEN Panic ELSE call.resolved,
                result |-> NoCall.result]
    /\ UNCHANGED <<program, nodes, stack, pc, envs, genvars>>

\* resolve_identifier_path on environment e, with the outcome of the
\* resolve_proto_type call it makes
ResolveIdentifierPath(e, path) ==
    /\ pc = "ready"
    /\ call.op = "none"
    /\ call' = [op |-> "resolve_identifier_path", env |-> e, path |-> path,
                resolved |-> resolve_proto_type(envs[e].type_context, path),
                result |-> resolve_identifier_path(envs[e].type_context, path)]
    /\ UNCHANGED <<program, nodes, stack, pc, envs, genvars>>

\* the caller takes the outcome of the call
Return ==
    /\ call.op # "none"
    /\ call' = NoCall
    /\ UNCHANGED <<program, nodes, stack, pc, envs, genvars>>

----------------------------------------------------------------------------
(* The Dart generator *)

\* ProtoFieldType
Int32 == [tag |-> "Primitive", primitive |-> "Int32"]
Identifier(identifier) == [tag |-> "Identifier", identifier |-> identifier]
Map(key, value) == [tag |-> "Map", key |-> key, value |-> value]

\* the field types of the generated programs
FieldTypeSet ==
    {Int32, Identifier(Foo), Identifier(Foo \o <<".">> \o Bar),
     Map(Int32, Identifier(Bar))}

\* the field lists of one message: at most MaxFields fields
FieldLists == {<<>>} \cup SeqsUpTo(FieldTypeSet, MaxFields)

\* the messages of program p
MessagesOf(p) == {m \in 1..Len(p) : p[m].kind = "Message"}

\* program p with the fields fs in its message d
WithFields(p, d, fs) == [p EXCEPT ![d].fields = fs]

\* GeneratorEnvironment::resolve_proto_type of the generator: the identifier
\* is compared as a whole
dart_resolve_proto_type(type_context, identifier) ==
    resolve_proto_type_relative_to_context(identifier, type_context)

\* the lookup that hands an unknown identifier back instead of aborting
resolve_identifier_lenient(type_context, identifier) ==
    LET resolved_type == dart_resolve_proto_type(type_context, identifier)
    IN IF resolved_type = None \/ nodes[resolved_type].fully_qualified_identifier = NoString
       THEN Returned(identifier)
       ELSE Returned(nodes[resolved_type].fully_qualified_identifier[1])

\* GeneratorEnvironment::resolve_identifier
resolve_identifier(type_context, identifier) ==
    LET resolved_type == dart_resolve_proto_type(type_context, identifier)
    IN IF resolved_type = None
       THEN Panicked("Failed to find identifier")
       ELSE IF nodes[resolved_type].fully_qualified_identifier = NoString
       THEN Panicked("expected fully qualified identifier on non-root node")
       ELSE Returned(nodes[resolved_type].fully_qualified_identifier[1])

\* DartCodeGenerator::get_dart_type
RECURSIVE get_dart_type(_, _)
get_dart_type(field_type, type_context) ==
    IF field_type.tag = "Identifier"
    THEN resolve_identifier(type_context, field_type.identifier)
    ELSE IF field_type.tag = "Primitive"
    THEN Returned(<<"int">>)
    ELSE LET key == get_dart_type(field_type.key, type_context)
             value == get_dart_type(field_type.value, type_context)
         IN IF key.panic # "" THEN key
            ELSE IF value.panic # "" THEN value
            ELSE Returned(<<"Map<">> \o key.value \o <<",">> \o value.value \o <<">">>)

\* the loop over message.fields of gen_message, from field k on
RECURSIVE gen_message_fields(_, _, _)
gen_message_fields(fields, k, type_context) ==
    IF k > Len(fields) THEN Returned(<<>>)
    ELSE LET field == get_dart_type(fields[k], type_context)
             rest == gen_message_fields(fields, k + 1, type_context)
         IN IF field.panic # "" THEN field
            ELSE IF rest.panic # "" THEN rest
            ELSE Returned(field.value \o <<";">> \o rest.value)

RECURSIVE queue_nested_types_on_self(_, _, _, _)
\* the nested types queued on the environment of the enclosing message
queue_nested_types_on_self(es, e, types, k) ==
    IF k > Len(types) THEN es
    ELSE queue_nested_types_on_self(
             [new_child(es, e, types[k]) EXCEPT ![e].queued_ops = Append(@, types[k])],
             e, types, k + 1)

\* the loop over message.types of gen_message, from nested type k on: every
\* nested type gets a child environment with the operation that generates it
RECURSIVE queue_nested_types(_, _, _, _)
queue_nested_types(es, e, types, k) ==
    IF k > Len(types) THEN es
    ELSE LET withChild == new_child(es, e, types[k])
             child == Len(withChild)
         IN queue_nested_types(
                [withChild EXCEPT ![child].queued_ops = Append(@, types[k])],
                e, types, k + 1)

\* DartCodeGenerator::gen_type in environment e: the text of the unit, or
\* the abort, and the environments afterwards
gen_type(es, e, d) ==
    LET type_context == es[e].type_context
        message_name == nodes[type_context].fully_qualified_identifier
    IN IF message_name = NoString
       THEN [text |-> Panicked("expect to generate message in the context of a proto type"),
             envs |-> es]
       ELSE IF program[d].kind = "Enum"
       THEN [text |-> Returned(<<"class">> \o message_name[1]
                                \o <<"extends", "ProtobufEnum", "{", "}">>),
             envs |-> es]
       ELSE LET fields == gen_message_fields(program[d].fields, 1, type_context)
            IN IF fields.panic # ""
               THEN [text |-> fields, envs |-> es]
               ELSE [text |-> Returned(<<"class">> \o message_name[1] \o <<"{">>
                                        \o fields.value \o <<"}">>),
                     envs |-> queue_nested_types(es, e, Types(d), 1)]

\* Vec<String>::join("")
RECURSIVE join(_)
join(strings) == IF strings = <<>> THEN <<>> ELSE Head(strings) \o join(Tail(strings))

\* gen_code: one turn of the loop over the top-level types
GenTopLevel ==
    /\ pc = "ready"
    /\ next_type <= Len(Types(0))
    /\ LET d == Types(0)[next_type]
           withChild == new_child(envs, 1, d)
           unit == gen_type(withChild, Len(withChild), d)
       IN IF unit.text.panic # ""
          THEN /\ outcome' = unit.text
               /\ pc' = "returned"
               /\ UNCHANGED <<envs, result, next_type>>
          ELSE /\ result' = Append(result, unit.text.value)
               /\ envs' = unit.envs
               /\ next_type' = next_type + 1
               /\ UNCHANGED <<outcome, pc>>
    /\ UNCHANGED <<program, nodes, stack, call, fstack>>

\* gen_code calls flush_queued_ops_deep on the root environment
FlushBegin ==
    /\ pc = "ready"
    /\ next_type > Len(Types(0))
    /\ fstack' = <<[env |-> 1, results |-> <<>>, child |-> 0]>>
    /\ pc' = "flushing"
    /\ UNCHANGED <<program, nodes, stack, envs, call, next_type, result, outcome>>

FTop == fstack[Len(fstack)]

\* flush_queued_ops: pop the last queued operation and invoke it
FlushOp ==
    /\ pc = "flushing"
    /\ FTop.child = 0
    /\ envs[FTop.env].queued_ops # <<>>
    /\ LET ops == envs[FTop.env].queued_ops
           op == ops[Len(ops)]
           popped == [envs EXCEPT ![FTop.env].queued_ops = SubSeq(ops, 1, Len(ops) - 1)]
           unit == gen_type(popped, FTop.env, op)
       IN IF unit.text.panic # ""
          THEN /\ outcome' = unit.text
               /\ pc' = "returned"
               /\ UNCHANGED <<envs, fstack>>
          ELSE /\ envs' = unit.envs
               /\ fstack' = [fstack EXCEPT ![Len(fstack)].results =
                                Append(@, <<"\n\n">> \o unit.text.value)]
               /\ UNCHANGED <<outcome, pc>>
    /\ UNCHANGED <<program, nodes, stack, call, next_type, result>>

\* flush_queued_ops returns: the queue is empty
FlushOpsDone ==
    /\ pc = "flushing"
    /\ FTop.child = 0
    /\ envs[FTop.env].queued_ops = <<>>
    /\ fstack' = [fstack EXCEPT ![Len(fstack)].child = 1]
    /\ UNCHANGED <<program, nodes, stack, pc, envs, call, next_type, result, outcome>>

\* a flush that goes through the child environments from the last to the first
FlushChildBackwards ==
    /\ pc = "flushing"
    /\ FTop.child >= 1
    /\ FTop.child <= Len(envs[FTop.env].children)
    /\ fstack' = Append(fstack,
                        [env |-> envs[FTop.env].children[Len(envs[FTop.env].children) + 1 - FTop.child],
                         results |-> <<>>, child |-> 0])
    /\ UNCHANGED <<program, nodes, stack, pc, envs, call, next_type, result, outcome>>

\* flush_queued_ops_deep: recurse into the next child environment
FlushChild ==
    /\ pc = "flushing"
    /\ FTop.child >= 1
    /\ FTop.child <= Len(envs[FTop.env].children)
    /\ fstack' = Append(fstack, [env |-> envs[FTop.env].children[FTop.child],
                                 results |-> <<>>, child |-> 0])
    /\ UNCHANGED <<program, nodes, stack, pc, envs, call, next_type, result, outcome>>

\* flush_queued_ops_deep returns to the flush of the parent environment
FlushReturn ==
    /\ pc = "flushing"
    /\ Len(fstack) > 1
    /\ FTop.child > Len(envs[FTop.env].children)
    /\ LET caller == fstack[Len(fstack) - 1]
       IN fstack' = Append(SubSeq(fstack, 1, Len(fstack) - 2),
                           [caller EXCEPT !.results = @ \o FTop.results,
                                          !.child = @ + 1])
    /\ UNCHANGED <<program, nodes, stack, pc, envs, call, next_type, result, outcome>>

\* flush_queued_ops_deep returns to gen_code, which returns the joined text
GenCodeReturn ==
    /\ pc = "flushing"
    /\ Len(fstack) = 1
    /\ FTop.child > Len(envs[FTop.env].children)
    /\ result' = result \o FTop.results
    /\ outcome' = Returned(join(result \o FTop.results))
    /\ fstack' = <<>>
    /\ pc' = "returned"
    /\ UNCHANGED <<program, nodes, stack, envs, call, next_type>>

\* the statements the parser accepts are the declarations; any other
\* statement of the source makes it fail
Rejected(src) == {d \in 1..Len(src) : src[d].kind \notin Kinds}

\* ParserImpl::parse: the program, or the error of the first statement it
\* cannot take
parse(src) ==
    IF Rejected(src) = {}
    THEN Returned(src)
    ELSE LET d == CHOOSE x \in Rejected(src) : \A y \in Rejected(src) : x <= y
         IN Err(<<"Unexpected rule", "at">> \o src[d].name)

\* the sources the parser fails on
Unparsable(p) == {[p EXCEPT ![d].kind = "Unexpected"] : d \in 1..Len(p)}

\* a gen_code that reports a parse error in words of its own
GenCodeRewordsParseError ==
    /\ pc = "start"
    /\ ~IsOk(parse(program))
    /\ outcome' = Err(<<"Failed to parse">>)
    /\ pc' = "returned"
    /\ UNCHANGED <<program, nodes, stack, envs, call, next_type, result, fstack>>

\* gen_code: let prog = self.parser.parse(src)? returns the parser's error
GenCodeParseError ==
    /\ pc = "start"
    /\ ~IsOk(parse(program))
    /\ outcome' = parse(program)
    /\ pc' = "returned"
    /\ UNCHANGED <<program, nodes, stack, envs, call, next_type, result, fstack>>

\* what a finished gen_code gave its caller: the units behind the returned
\* text, or the failure
Given == IF IsOk(outcome) THEN Returned(result) ELSE outcome

\* a second gen_code whose result vector still holds the units of the first
GenCodeAgainOnOldUnits ==
    /\ pc = "returned"
    /\ call.op = "none"
    /\ call' = [op |-> "gen_code", env |-> 0, path |-> <<>>, resolved |-> None,
                result |-> Given]
    /\ nodes' = <<>>
    /\ stack' = <<>>
    /\ envs' = <<>>
    /\ next_type' = 1
    /\ fstack' = <<>>
    /\ outcome' = NoOutcome
    /\ pc' = "start"
    /\ UNCHANGED <<program, result>>

\* the caller keeps what gen_code gave it and calls gen_code on the same
\* source again: the hierarchy, the environments and the result vector are
\* locals of the call
GenCodeAgain ==
    /\ pc = "returned"
    /\ call.op = "none"
    /\ call' = [op |-> "gen_code", env |-> 0, path |-> <<>>, resolved |-> None,
                result |-> Given]
    /\ nodes' = <<>>
    /\ stack' = <<>>
    /\ envs' = <<>>
    /\ next_type' = 1
    /\ result' = <<>>
    /\ fstack' = <<>>
    /\ outcome' = NoOutcome
    /\ pc' = "start"
    /\ UNCHANGED program

----------------------------------------------------------------------------
(* Specification *)

\* nothing is built and nothing has run
Fresh ==
    /\ nodes = <<>>
    /\ stack = <<>>
    /\ pc = "start"
    /\ envs = <<>>
    /\ call = NoCall
    /\ next_type = 1
    /\ result = <<>>
    /\ fstack = <<>>
    /\ outcome = NoOutcome

Init ==
    /\ program \in Programs(NameSet)
    /\ Fresh

Build ==
    \/ FromProgramBegin
    \/ NodeNew
    \/ NodeReturn
    \/ FromProgramEnd

\* the hierarchy is built, then environments are entered one inside the
\* other, as gen_message enters them, and paths are resolved from the innermost
Next ==
    \/ Build
    \/ GeneratorEnvironmentNew
    \/ \E d \in Decls : Len(envs) < MaxEnvs /\ NewChild(Len(envs), d)
    \/ \E path \in Paths : ResolveIdentifierPath(Len(envs), path)
    \/ Return

Spec == Init /\ [][Next]_vars

\* child environments for declarations of the program and for declarations
\* given by value
NextChild ==
    \/ Build
    \/ GeneratorEnvironmentNew
    \/ \E d \in Decls : Len(envs) < MaxEnvs /\ NewChild(Len(envs), d)
    \/ \E proto_type \in ForeignDecls :
          Len(envs) < MaxEnvs /\ NewChildForeign(Len(envs), proto_type)
    \/ Return

SpecChild == Init /\ [][NextChild]_vars

\* a message that nests a message
Nested ==
    <<[parent |-> 0, name |-> Foo, kind |-> "Message", fields |-> <<>>],
      [parent |-> 1, name |-> Bar, kind |-> "Message", fields |-> <<>>]>>

\* the queues of a tree of environments over the hierarchy of Nested
InitEnv ==
    /\ program = Nested
    /\ Fresh

NextEnv ==
    \/ Build
    \/ GeneratorEnvironmentNew
    \/ \E e \in 1..Len(envs), d \in Decls : Len(envs) <= MaxChildren /\ NewChild(e, d)
    \/ \E e \in 1..Len(envs) : QueueOutput(e)
    \/ \E e \in 1..Len(envs) : FlushQueuedOutputs(e)
    \/ \E e \in 1..Len(envs) : FlushQueuedOutputsDeep(e)
    \/ Return

SpecEnv == InitEnv /\ [][NextEnv]_vars

\* the paths resolved between the other operations: those shorter than the
\* longest
ApiPaths == {path \in Paths : Len(get_path_parts(path)) < MaxPathLen}

\* every operation of GeneratorEnvironment on a tree of environments over
\* the hierarchy of Nested
NextApi ==
    \/ Build
    \/ GeneratorEnvironmentNew
    \/ \E e \in 1..Len(envs), d \in Decls : Len(envs) <= MaxChildren /\ NewChild(e, d)
    \/ \E e \in 1..Len(envs) : QueueOutput(e)
    \/ \E e \in 1..Len(envs) : FlushQueuedOutputs(e)
    \/ \E e \in 1..Len(envs) : FlushQueuedOutputsDeep(e)
    \/ \E e \in 1..Len(envs), path \in ApiPaths : ResolveIdentifierPath(e, path)
    \/ Return

SpecApi == InitEnv /\ [][NextApi]_vars

\* the queued operations of a tree of thunk-based environments over the
\* hierarchy of Nested
NextOps ==
    \/ Build
    \/ GeneratorEnvironmentNew
    \/ \E e \in 1..Len(envs), d \in Decls : Len(envs) <= MaxChildren /\ NewChild(e, d)
    \/ \E e \in 1..Len(envs), fails \in BOOLEAN : QueueOp(e, fails)
    \/ \E e \in 1..Len(envs) : FlushQueuedOps(e)
    \/ Return

SpecOps == InitEnv /\ [][NextOps]_vars

\* the entries that callers keep queued at a time in the deep-flush runs
MaxPending == 2
Pending == QueuedFrom(envs, 1) < MaxPending

\* the deep flush of a tree of thunk-based environments whose operations
\* may fail and may leave child environments with operations behind
NextDeep ==
    \/ Build
    \/ GeneratorEnvironmentNew
    \/ \E e \in 1..Len(envs), d \in Decls : Room(1) /\ NewChild(e, d)
    \/ \E e \in 1..Len(envs), fails \in BOOLEAN : Pending /\ QueueOp(e, fails)
    \/ \E e \in 1..Len(envs), d \in {x \in Decls : Types(x) # <<>>} :
          Pending /\ QueueGenOp(e, d)
    \/ \E e \in 1..Len(envs) : Pending /\ QueueOutput(e)
    \/ \E e \in 1..Len(envs) : FlushQueuedOutputsDeep(e)
    \/ \E e \in 1..Len(envs) : FlushQueuedOpsDeep(e)
    \/ Return

SpecDeep == InitEnv /\ [][NextDeep]_vars

\* the hierarchies of the schemas of messages nested up to MaxNested deep
InitWalk ==
    /\ program \in Schemas
    /\ Fresh

\* resolve_proto_type step by step, from every node of the hierarchy
NextWalk ==
    \/ Build
    \/ \E scope \in 1..Len(nodes), path \in Paths : ResolveBegin(scope, path)
    \/ FoldNext
    \/ WalkStep
    \/ ResolveEnd
    \/ call.op = "resolved" /\ Return

\* a call of resolve_proto_type runs on until it returns
SpecWalk == InitWalk /\ [][NextWalk]_vars /\ WF_vars(FoldNext \/ WalkStep \/ ResolveEnd)

\* naming only: the hierarchy of a program whose names may hold the separator
InitNaming ==
    /\ program \in Programs(QualifiedNameSet)
    /\ Fresh

SpecNaming == InitNaming /\ [][Build]_vars

\* a run of gen_code on a parsed program
InitGen ==
    /\ \/ \E p \in Programs(NameSet) :
             \/ program = p
             \/ /\ Len(p) <= MaxFieldDecls
                /\ \E d \in MessagesOf(p), fs \in FieldLists : program = WithFields(p, d, fs)
       \/ program \in Schemas
       \/ \E p \in Programs(NameSet) : Len(p) <= MaxFieldDecls /\ program \in Unparsable(p)
    /\ Fresh

NextGen ==
    \/ GenCodeParseError
    \/ IsOk(parse(program)) /\ Build
    \/ GeneratorEnvironmentNew
    \/ GenTopLevel
    \/ FlushBegin
    \/ FlushOp
    \/ FlushOpsDone
    \/ FlushChild
    \/ FlushReturn
    \/ GenCodeReturn
    \/ GenCodeAgain

SpecGen == InitGen /\ [][NextGen]_vars

----------------------------------------------------------------------------
(* Vocabulary of the properties *)

\* the scope node the environment of the last call stands at
Ctx == envs[call.env].type_context

IsNode(x) == x \in 1..Len(nodes)

\* the local name of the declaration of a non-root node
NodeName(n) == program[nodes[n].proto_type].name

FQN(n) == nodes[n].fully_qualified_identifier

\* the direct children of n whose local name is s
KidsNamed(n, s) ==
    {nodes[n].children[i] : i \in {j \in 1..Len(nodes[n].children) :
                                      NodeName(nodes[n].children[j]) = s}}

RECURSIVE NodeAncestors(_)
\* n and the nodes above it, the root included
NodeAncestors(n) ==
    IF n = None THEN {} ELSE {n} \cup NodeAncestors(nodes[n].parent)

RECURSIVE Depth(_)
\* the nesting depth of a node: 0 for the root, 1 for a top-level declaration
Depth(n) == IF nodes[n].parent = None THEN 0 ELSE 1 + Depth(nodes[n].parent)

SingleSegment(path) == \A i \in 1..Len(path) : path[i] # "."

\* resolve_identifier_path was called; call.resolved is what its
\* resolve_proto_type returned and call.result what it returned itself
Resolving == call.op = "resolve_identifier_path"

----------------------------------------------------------------------------
(* C1 *)

\* C1: when the current scope node has a direct child named s, resolving the
\* single-segment path s yields such a child (resolve_identifier_path yields
\* its fully-qualified identifier), whatever the current node and its
\* ancestors are called.
C1_LocalScopeFirst ==
    (/\ Resolving
     /\ SingleSegment(call.path)
     /\ KidsNamed(Ctx, call.path) # {})
    => /\ call.resolved \in KidsNamed(Ctx, call.path)
       /\ \E c \in KidsNamed(Ctx, call.path) : call.result = Returned(FQN(c)[1])

----------------------------------------------------------------------------
(* C2 *)

\* the source text of the first k segments of a path
Prefix(path, k) == JoinDot(SubSeq(get_path_parts(path), 1, k))

\* C2: in a path of two or more segments, a segment after the first is looked
\* up only among the direct children of the node the segments before it
\* resolved to; when that node has no such child the whole path resolves
\* to None.
C2_StrictlyDownward ==
    Resolving =>
        \A k \in 2..Len(get_path_parts(call.path)) :
            LET prev == resolve_proto_type(Ctx, Prefix(call.path, k - 1))
            IN (IsNode(prev) /\ KidsNamed(prev, get_path_parts(call.path)[k]) = {})
               => call.resolved = None

----------------------------------------------------------------------------
(* C3 *)

\* the siblings of n (the other children of its parent) whose local name is s
SiblingsNamed(n, s) == KidsNamed(nodes[n].parent, s) \ {n}

\* C3: from the environment of a nested declaration N that neither is called
\* s nor nests a type called s, the single-segment path s resolves to the
\* fully-qualified identifier of a sibling of N called s, also when an
\* enclosing scope declares another s.
C3_NearestSiblingWins ==
    (/\ Resolving
     /\ SingleSegment(call.path)
     /\ Depth(Ctx) >= 2
     /\ NodeName(Ctx) # call.path
     /\ KidsNamed(Ctx, call.path) = {}
     /\ SiblingsNamed(Ctx, call.path) # {})
    => \E sib \in SiblingsNamed(Ctx, call.path) : call.result = Returned(FQN(sib)[1])

----------------------------------------------------------------------------
(* C4 *)

RECURSIVE ChildrenOnlyWalk(_, _)
\* the upward walk that compares a segment with children only
ChildrenOnlyWalk(identifier, curr) ==
    IF curr = None THEN {}
    ELSE IF KidsNamed(curr, identifier) # {} THEN KidsNamed(curr, identifier)
    ELSE ChildrenOnlyWalk(identifier, nodes[curr].parent)

\* C4: the upward walk compares the segment with the direct children of the
\* current node and of each ancestor only, never with a node's own name: a
\* single-segment path resolves to a child called like it of the nearest of
\* these nodes that has one, and to None when none of them has one.
C4_ChildrenOnly ==
    (Resolving /\ SingleSegment(call.path))
    => IF ChildrenOnlyWalk(call.path, Ctx) = {}
       THEN call.resolved = None
       ELSE call.resolved \in ChildrenOnlyWalk(call.path, Ctx)

----------------------------------------------------------------------------
(* C5 *)

\* the last call resolves the type s of a field of the message at Ctx
FieldOfMessage ==
    /\ Resolving
    /\ SingleSegment(call.path)
    /\ Ctx # head
    /\ program[nodes[Ctx].proto_type].kind = "Message"

\* C5: a field of message M whose type is M's own local name resolves to M
\* itself when M nests no type of that name, and a field whose type is the
\* name of a type nested in M resolves to that nested type.
C5_SelfReference ==
    FieldOfMessage =>
        /\ (NodeName(Ctx) = call.path /\ KidsNamed(Ctx, call.path) = {})
           => call.result = Returned(FQN(Ctx)[1])
        /\ KidsNamed(Ctx, call.path) # {}
           => \E c \in KidsNamed(Ctx, call.path) : call.result = Returned(FQN(c)[1])

----------------------------------------------------------------------------
(* C6 *)

\* no node from n up to the top-level declaration enclosing it nests a type
\* called s
NoLocalShadowing(n, s) ==
    \A a \in NodeAncestors(n) \ {head} : KidsNamed(a, s) = {}

\* C6: from any nesting depth, a single-segment path naming a top-level
\* declaration T that is not shadowed below the root resolves to a child of
\* the root called like T, and resolve_identifier_path returns T's
\* fully-qualified identifier.
C6_TopLevelFromAnyDepth ==
    (/\ Resolving
     /\ SingleSegment(call.path)
     /\ KidsNamed(head, call.path) # {}
     /\ NoLocalShadowing(Ctx, call.path))
    => /\ call.resolved \in KidsNamed(head, call.path)
       /\ \A t \in KidsNamed(head, call.path) : call.result = Returned(FQN(t)[1])

\* a top-level declaration was resolved from two levels below it
C6_Witness ==
    /\ Resolving
    /\ SingleSegment(call.path)
    /\ Depth(Ctx) >= 2
    /\ KidsNamed(head, call.path) # {}
    /\ NoLocalShadowing(Ctx, call.path)
    /\ \A a \in NodeAncestors(Ctx) \ {head} : NodeName(a) # call.path
    /\ call.result = Returned(call.path)

----------------------------------------------------------------------------
(* C7 *)

\* C7: when the upward search for the first segment of a path reaches the
\* root without a match, the whole path fails: no later segment turns the
\* result of resolve_proto_type back into a node.
C7_FailureIsTotal ==
    (/\ Resolving
     /\ resolve_proto_type_relative_to_context(get_path_parts(call.path)[1], Ctx) = None)
    => ~IsNode(call.resolved)

----------------------------------------------------------------------------
(* C9 *)

RECURSIVE NodePathNames(_)
\* the local names from the top-level declaration enclosing n down to n
NodePathNames(n) ==
    IF nodes[n].parent = head THEN <<NodeName(n)>>
    ELSE Append(NodePathNames(nodes[n].parent), NodeName(n))

RECURSIVE JoinSeparator(_)
JoinSeparator(names) ==
    IF Len(names) = 1 THEN names[1]
    ELSE names[1] \o <<"_">> \o JoinSeparator(Tail(names))

\* C9: the fully-qualified identifier of every non-root node is the local
\* names of its ancestors below the root and its own local name, outer to
\* inner, joined by "_"; a top-level declaration has its local name alone.
C9_QualifiedByAncestors ==
    \A n \in 2..Len(nodes) : FQN(n) = Some(JoinSeparator(NodePathNames(n)))

\* a hierarchy with a declaration at the third nesting level is built
C9_Witness ==
    /\ pc = "built"
    /\ \E n \in 2..Len(nodes) :
          /\ Depth(n) = 3
          /\ Len(FQN(n)[1]) >= 5

----------------------------------------------------------------------------
(* C10 *)

RECURSIVE DeclDepth(_)
DeclDepth(d) == IF program[d].parent = 0 THEN 1 ELSE 1 + DeclDepth(program[d].parent)

\* no two declarations of one nesting level share a local name
UniqueLocalNames ==
    \A a, b \in Decls :
        (a # b /\ DeclDepth(a) = DeclDepth(b)) => program[a].name # program[b].name

\* C10: when local names are unique at each nesting level, distinct
\* declarations get distinct fully-qualified identifiers.
C10_NoCollisions ==
    (pc = "built" /\ UniqueLocalNames)
    => \A n, m \in 2..Len(nodes) : n # m => FQN(n) # FQN(m)

----------------------------------------------------------------------------
(* C8 *)

RECURSIVE IdentifiersOf(_)
\* the identifiers a field type refers to, directly or as a map key or value
IdentifiersOf(field_type) ==
    IF field_type.tag = "Identifier" THEN {field_type.identifier}
    ELSE IF field_type.tag = "Primitive" THEN {}
    ELSE IdentifiersOf(field_type.key) \cup IdentifiersOf(field_type.value)

\* field k of declaration d refers to an identifier that the resolver does
\* not match from the scope node of d's environment
UnresolvedAt(d, k) ==
    \E identifier \in IdentifiersOf(program[d].fields[k]) :
        dart_resolve_proto_type(find_type_node(d), identifier) = None

UnresolvedField == \E d \in Decls : \E k \in 1..Len(program[d].fields) : UnresolvedAt(d, k)

\* C8: when a field of any message, top-level or nested, refers directly or
\* inside a map type to an identifier that the resolver cannot match,
\* gen_code stops with the unresolved-reference failure and returns no text,
\* not even the units generated before the failing field.
C8_UnresolvedIsFatal ==
    (pc = "returned" /\ UnresolvedField)
    => outcome = Panicked("Failed to find identifier")

\* the run aborted on a map field of a nested message, after units had been
\* generated
C8_Witness ==
    /\ pc = "returned"
    /\ outcome = Panicked("Failed to find identifier")
    /\ result # <<>>
    /\ \E d \in Decls :
          /\ program[d].parent # 0
          /\ \E k \in 1..Len(program[d].fields) :
                program[d].fields[k].tag = "Map" /\ UnresolvedAt(d, k)

----------------------------------------------------------------------------
(* C11 *)

\* the declarations nested directly in the declaration of node n (the
\* top-level declarations for the root)
NestedIn(n) == {d \in Decls : program[d].parent = nodes[n].proto_type}

\* the declarations of the children of node n, in the order of the list
ChildDecls(n) == [i \in 1..Len(nodes[n].children) |-> nodes[nodes[n].children[i]].proto_type]

\* C11: the hierarchy from_program returns mirrors the declaration tree: one
\* node per declaration plus the root; the root alone has no declaration, no
\* parent and no identifier; the children of a node are the nodes of the
\* nested types of its declaration in declaration order, none for an enum;
\* every non-root node is in the children list of its parent.
C11_MirrorsDeclarations ==
    pc = "built" =>
        /\ Len(nodes) = Len(program) + 1
        /\ nodes[head].proto_type = None
        /\ nodes[head].parent = None
        /\ nodes[head].fully_qualified_identifier = NoString
        /\ \A n \in 2..Len(nodes) :
              /\ nodes[n].proto_type \in Decls
              /\ nodes[n].parent \in 1..Len(nodes)
              /\ nodes[n].fully_qualified_identifier # NoString
              /\ \E i \in 1..Len(nodes[nodes[n].parent].children) :
                    nodes[nodes[n].parent].children[i] = n
              /\ program[nodes[n].proto_type].kind = "Enum" => nodes[n].children = <<>>
        /\ \A d \in Decls : Cardinality({n \in 2..Len(nodes) : nodes[n].proto_type = d}) = 1
        /\ \A n \in 1..Len(nodes) :
              /\ {ChildDecls(n)[i] : i \in 1..Len(ChildDecls(n))} = NestedIn(n)
              /\ \A i, j \in 1..Len(ChildDecls(n)) :
                    i < j => ChildDecls(n)[i] < ChildDecls(n)[j]

\* the hierarchy of a message that nests a message and an enum is built
C11_Witness ==
    /\ pc = "built"
    /\ \E n \in 2..Len(nodes) :
          /\ Len(nodes[n].children) = 2
          /\ program[nodes[nodes[n].children[1]].proto_type].kind = "Message"
          /\ program[nodes[nodes[n].children[2]].proto_type].kind = "Enum"

----------------------------------------------------------------------------
(* C12 *)

RECURSIVE DeclPathNames(_)
\* the local names from the top-level declaration enclosing d down to d
DeclPathNames(d) ==
    IF program[d].parent = 0 THEN <<program[d].name>>
    ELSE Append(DeclPathNames(program[d].parent), program[d].name)

\* C12: the environment new_child(d) returns stands at the node of d's own
\* occurrence, also when a structurally equal declaration occurs elsewhere:
\* it reports the fully-qualified identifier of d's own position.
C12_OwnNode ==
    [][\A d \in Decls :
          NewChild(Len(envs), d) =>
              nodes[envs'[Len(envs')].type_context].fully_qualified_identifier
                  = Some(JoinSeparator(DeclPathNames(d)))]_vars

----------------------------------------------------------------------------
(* C13 *)

\* C13: find_type_node finds every declaration of the program, and every
\* value equal to one; new_child with a value it does not find aborts and
\* leaves every environment, the parent's children list and queue included,
\* as it was.
C13_OnlyStrangersFail ==
    /\ [](pc = "ready" =>
            /\ \A d \in Decls : find_type_node(d) # None
            /\ \A d \in Decls : find_foreign(DeclValue(d)) = find_type_node(d))
    /\ [][\A proto_type \in ForeignDecls :
            (NewChildForeign(Len(envs), proto_type) /\ find_foreign(proto_type) = None)
            => (call'.result = Panicked("Failed to find type") /\ envs' = envs)]_vars

\* new_child aborted for an empty message that has the name of a message of
\* the program
C13_Witness ==
    /\ call.op = "new_child"
    /\ call.result = Panicked("Failed to find type")
    /\ \E d \in Decls :
          /\ program[d].kind = "Message"
          /\ Types(d) # <<>>
          /\ find_foreign([DeclValue(d) EXCEPT !.types = <<>>]) = None

----------------------------------------------------------------------------
(* C14 *)

\* the outputs a caller queued on e since e's queue was last empty, oldest first
Registered(e) == [k \in 1..Len(envs[e].queued_outputs) |-> Output(e, k)]

\* C14: flush_queued_outputs returns the outputs queued on this environment
\* since its previous flush, oldest first, and empties its queue; it leaves
\* every other environment as it was.
C14_LocalFlush ==
    [][\A e \in 1..Len(envs) :
          FlushQueuedOutputs(e) =>
              /\ call'.result = Returned(Registered(e))
              /\ envs'[e] = [envs[e] EXCEPT !.queued_outputs = <<>>]
              /\ \A other \in 1..Len(envs) \ {e} : envs'[other] = envs[other]]_vars

\* a flush returned two outputs of a parent and left the output of its child
C14_Witness ==
    /\ call.op = "flush_queued_outputs"
    /\ call.result = Returned(<<Output(call.env, 1), Output(call.env, 2)>>)
    /\ envs[call.env].queued_outputs = <<>>
    /\ \E i \in 1..Len(envs[call.env].children) :
          envs[envs[call.env].children[i]].queued_outputs # <<>>

----------------------------------------------------------------------------
(* C15 *)

RECURSIVE Labels(_)
Labels(queued_ops) ==
    IF queued_ops = <<>> THEN <<>> ELSE <<Head(queued_ops).label>> \o Labels(Tail(queued_ops))

NoneFails(e) == \A k \in 1..Len(envs[e].queued_ops) : ~envs[e].queued_ops[k].fails

\* C15: flush_queued_ops invokes the operations queued on one environment in
\* the order they were queued: the result of the operation queued first comes
\* first in the returned list.
C15_FifoOps ==
    [][\A e \in 1..Len(envs) :
          (FlushQueuedOps(e) /\ NoneFails(e)) =>
              call'.result = Returned(Labels(envs[e].queued_ops))]_vars

----------------------------------------------------------------------------
(* C16 *)

RECURSIVE Subtree(_)
\* an environment and the environments below it
Subtree(e) ==
    {e} \cup UNION {Subtree(envs[e].children[i]) : i \in 1..Len(envs[e].children)}

RECURSIVE DeepFrom(_, _)
RECURSIVE Deep(_)
\* the outputs queued in the subtree of e: those of e, then those of the
\* subtree of each child in the order of e's children list
Deep(e) == Registered(e) \o DeepFrom(envs[e].children, 1)
DeepFrom(children, i) ==
    IF i > Len(children) THEN <<>> ELSE Deep(children[i]) \o DeepFrom(children, i + 1)

\* in r, the outputs of an environment come in queueing order and before
\* those of its descendants, and at every environment the outputs below an
\* earlier child come before those below a later child
PreOrdered(r) ==
    \A i, j \in DOMAIN r :
        i < j =>
            LET a == r[i][1]
                b == r[j][1]
            IN /\ a \notin Subtree(b) \ {b}
               /\ a = b => r[i][2] < r[j][2]
               /\ \A p \in 1..Len(envs) :
                     \A m, n \in 1..Len(envs[p].children) :
                         (/\ a \in Subtree(envs[p].children[m])
                          /\ b \in Subtree(envs[p].children[n])) => m <= n

\* C16: flush_queued_outputs_deep(env) is flush_queued_outputs(env) followed
\* by flush_queued_outputs_deep(child) for each child in creation order: it
\* returns every output queued in the subtree exactly once, an environment's
\* outputs before those of its descendants and an earlier child's whole output
\* before a later child's, and empties the queues of the subtree only.
C16_DeepFlushIsPreOrder ==
    [][\A e \in 1..Len(envs) :
          FlushQueuedOutputsDeep(e) =>
              LET r == call'.result.value
              IN /\ r = Deep(e)
                 /\ PreOrdered(r)
                 /\ \A i, j \in DOMAIN r : r[i] = r[j] => i = j
                 /\ {r[i] : i \in DOMAIN r}
                      = UNION {{Registered(x)[k] : k \in DOMAIN Registered(x)} : x \in Subtree(e)}
                 /\ \A x \in 1..Len(envs) :
                       envs'[x] = IF x \in Subtree(e)
                                  THEN [envs[x] EXCEPT !.queued_outputs = <<>>]
                                  ELSE envs[x]]_vars

\* a deep flush returned an output of the environment and of each of its two
\* children
C16_Witness ==
    /\ call.op = "flush_queued_outputs_deep"
    /\ Len(call.result.value) = 3
    /\ Cardinality({call.result.value[i][1] : i \in 1..3}) = 3
    /\ call.result.value[1][1] = call.env
    /\ Len(envs[call.env].children) = 2

----------------------------------------------------------------------------
(* C17 *)

\* gen_code returned Ok
Succeeded == pc = "returned" /\ IsOk(outcome)

\* the declarations nested inside d, at any depth
NestedBelow(d) == {n \in Decls : d \in DeclAncestors(program, n) \ {n}}

\* the identifier the environment made for d reports
ReportedName(d) == nodes[find_type_node(d)].fully_qualified_identifier[1]

\* the unit declares the class of that name
UnitNamed(unit, name) ==
    LET text == IF Head(unit) = "\n\n" THEN Tail(unit) ELSE unit
    IN /\ Len(text) >= Len(name) + 2
       /\ SubSeq(text, 1, Len(name) + 1) = <<"class">> \o name
       /\ text[Len(name) + 2] \in {"{", "extends"}

\* Foo { Bar { Baz }, Qux }
Example == Schema(<<0, 1, 2, 1>>)

\* C17: in the output of gen_code every type's unit precedes the units of the
\* types nested inside it, a nested type's unit is followed at once by the
\* units of its own nested types, and nested siblings keep declaration order;
\* Foo { Bar { Baz }, Qux } gives Foo, Foo_Bar, Foo_Bar_Baz, Foo_Qux.
C17_NestedOrder ==
    Succeeded =>
        /\ \E unit \in [Decls -> 1..Len(result)] :
              /\ \A d, n \in Decls : d # n => unit[d] # unit[n]
              /\ \A d \in Decls : UnitNamed(result[unit[d]], ReportedName(d))
              /\ \A d \in Decls : \A n \in NestedBelow(d) : unit[d] < unit[n]
              /\ \A d \in Decls :
                    program[d].parent # 0 =>
                        {unit[n] : n \in {d} \cup NestedBelow(d)}
                            = unit[d]..(unit[d] + Cardinality(NestedBelow(d)))
              /\ \A d, n \in Decls :
                    (d < n /\ program[d].parent # 0 /\ program[d].parent = program[n].parent)
                        => unit[d] < unit[n]
        /\ program = Example =>
              /\ Len(result) = 4
              /\ UnitNamed(result[1], Foo)
              /\ UnitNamed(result[2], Foo \o <<"_">> \o Bar)
              /\ UnitNamed(result[3], Foo \o <<"_">> \o Bar \o <<"_">> \o Baz)
              /\ UnitNamed(result[4], Foo \o <<"_">> \o Qux)

\* gen_code returned the four units of Foo { Bar { Baz }, Qux }
C17_Witness ==
    /\ Succeeded
    /\ program = Example
    /\ Len(result) = 4

----------------------------------------------------------------------------
(* C18 *)

----------------------------------------------------------------------------
(* C19 *)

\* the units of the output that declare the class of declaration d
UnitsOf(d) ==
    {k \in 1..Len(result) : UnitNamed(result[k], JoinSeparator(DeclPathNames(d)))}

\* C19: a successful gen_code emits exactly one unit per declaration of the
\* schema, top-level or nested: none is skipped and none is emitted twice.
C19_OneUnitPerDeclaration ==
    (Succeeded /\ UniqueLocalNames) =>
        /\ Len(result) = Len(program)
        /\ \A d \in Decls : Cardinality(UnitsOf(d)) = 1

----------------------------------------------------------------------------
(* C20 *)

\* C20: when the parser returns an error for the source, gen_code returns
\* that same error, builds no hierarchy and no environment, and produces no
\* output.
C20_ParseErrorSurfaces ==
    ~IsOk(parse(program)) =>
        /\ nodes = <<>>
        /\ stack = <<>>
        /\ envs = <<>>
        /\ result = <<>>
        /\ pc \in {"start", "returned"}
        /\ pc = "returned" => outcome = parse(program)

\* gen_code returned the parser's error for a source whose second statement,
\* inside a message, is rejected
C20_Witness ==
    /\ pc = "returned"
    /\ Rejected(program) = {2}
    /\ program[2].parent = 1
    /\ outcome = Err(<<"Unexpected rule", "at">> \o program[2].name)
    /\ nodes = <<>>
    /\ envs = <<>>

----------------------------------------------------------------------------
(* C21 *)

\* from_program has returned
Built == pc \in {"built", "ready"}

\* C21: once from_program has returned, no new_child, resolve_proto_type,
\* resolve_identifier_path, queue_output, flush_queued_outputs or
\* flush_queued_outputs_deep call changes a node's parent, declaration,
\* fully-qualified identifier or children list, or the number of nodes.
C21_HierarchyReadOnly ==
    [][Built =>
          /\ Len(nodes') = Len(nodes)
          /\ \A n \in 1..Len(nodes) :
                /\ nodes'[n].parent = nodes[n].parent
                /\ nodes'[n].proto_type = nodes[n].proto_type
                /\ nodes'[n].fully_qualified_identifier = nodes[n].fully_qualified_identifier
                /\ nodes'[n].children = nodes[n].children]_vars

\* a path was resolved from the second child environment while an output
\* was queued, and the hierarchy of Nested is as from_program left it
C21_Witness ==
    /\ pc = "ready"
    /\ Len(envs) = 3
    /\ call.op = "resolve_identifier_path"
    /\ call.env = 3
    /\ \E e \in 1..Len(envs) : envs[e].queued_outputs # <<>>
    /\ Len(nodes) = 3
    /\ nodes[1].children = <<2>>
    /\ nodes[2].children = <<3>>
    /\ nodes[3].children = <<>>

----------------------------------------------------------------------------
(* C22 *)

\* node n is the root or has its identifier
Named(ns, n) == n = head \/ ns[n].fully_qualified_identifier # NoString

\* C22: the naming policy is invoked for a node only when its parent node
\* exists and is the root or has its identifier, the node has its identifier
\* from the moment it exists, so before the policy is invoked for any of its
\* children, and an identifier never changes once assigned.
C22_PreOrderConstruction ==
    /\ [][NodeNew =>
             /\ Top.node \in 1..Len(nodes)
             /\ Named(nodes, Top.node)
             /\ Len(nodes') = Len(nodes) + 1
             /\ nodes'[Len(nodes')].parent = Top.node
             /\ nodes'[Len(nodes')].fully_qualified_identifier # NoString]_vars
    /\ [](\A n \in 2..Len(nodes) :
             /\ nodes[n].parent \in 1..(n - 1)
             /\ Named(nodes, n)
             /\ Named(nodes, nodes[n].parent))
    /\ [][\A n \in 1..Len(nodes) :
             /\ n \in 1..Len(nodes')
             /\ nodes'[n].fully_qualified_identifier = nodes[n].fully_qualified_identifier]_vars

\* a nested type has just been named after its parent, whose own
\* construction has not returned yet
C22_Witness ==
    /\ pc = "building"
    /\ Len(stack) = 3
    /\ nodes[Top.node].parent # head
    /\ nodes[Top.node].fully_qualified_identifier
         = Some(nodes[nodes[Top.node].parent].fully_qualified_identifier[1]
                  \o <<"_">> \o get_name(Top.decl))
    /\ nodes[nodes[Top.node].parent].children = <<>>
    /\ Types(nodes[nodes[Top.node].parent].proto_type) # <<>>

----------------------------------------------------------------------------
(* C23 *)

\* C23: queue_output(env, x) appends x at the end of env's own queue and
\* changes nothing else: not env's children list or scope node, not the
\* queue, children list or scope node of any other environment, not the
\* hierarchy.
C23_QueueOutputIsLocal ==
    [][\A e \in 1..Len(envs) :
          QueueOutput(e) =>
              /\ Len(envs') = Len(envs)
              /\ envs'[e].queued_outputs
                   = envs[e].queued_outputs \o <<Output(e, Len(envs[e].queued_outputs) + 1)>>
              /\ envs'[e].children = envs[e].children
              /\ envs'[e].type_context = envs[e].type_context
              /\ envs'[e].queued_ops = envs[e].queued_ops
              /\ \A other \in 1..Len(envs) \ {e} : envs'[other] = envs[other]
              /\ nodes' = nodes]_vars

\* a second output was queued on an environment that has a parent with an
\* output of its own and a child without one
C23_Witness ==
    /\ pc = "ready"
    /\ Len(envs) = 3
    /\ envs[1].children = <<2>>
    /\ envs[2].children = <<3>>
    /\ envs[1].queued_outputs = <<Output(1, 1)>>
    /\ envs[2].queued_outputs = <<Output(2, 1), Output(2, 2)>>
    /\ envs[3].queued_outputs = <<>>

----------------------------------------------------------------------------
(* C24 *)

\* p is the beginning of q
IsPrefix(p, q) == Len(p) <= Len(q) /\ SubSeq(q, 1, Len(p)) = p

\* C24: new_child appends exactly one new environment, with an empty queue,
\* no children and the node found for the declaration as scope node, at the
\* end of the caller's children list; and no operation, the flushes
\* included, removes or reorders an entry of a children list.
C24_ChildrenRetained ==
    /\ [][\A e \in 1..Len(envs), d \in Decls :
             NewChild(e, d) =>
                 LET child == Len(envs) + 1
                 IN /\ Len(envs') = child
                    /\ envs'[child].queued_outputs = <<>>
                    /\ envs'[child].queued_ops = <<>>
                    /\ envs'[child].children = <<>>
                    /\ envs'[child].type_context = find_type_node(d)
                    /\ DeclEq(nodes[envs'[child].type_context].proto_type, d)
                    /\ envs'[e] = [envs[e] EXCEPT !.children = envs[e].children \o <<child>>]
                    /\ \A other \in 1..Len(envs) \ {e} : envs'[other] = envs[other]]_vars
    /\ [][Built =>
             /\ Len(envs') >= Len(envs)
             /\ \A e \in 1..Len(envs) :
                   /\ IsPrefix(envs[e].children, envs'[e].children)
                   /\ \A i \in 1..Len(envs'[e].children) :
                         envs'[e].children[i] \in 1..Len(envs')]_vars

\* a deep flush returned the outputs of two children, which are still the
\* children of the flushed environment, in the order they were created
C24_Witness ==
    /\ call.op = "flush_queued_outputs_deep"
    /\ envs[call.env].children = <<2, 3>>
    /\ call.result.value = <<Output(2, 1), Output(3, 1)>>
    /\ envs[2].children = <<>>
    /\ envs[3].children = <<>>

----------------------------------------------------------------------------
(* C25 *)

\* C25: resolve_proto_type changes neither the environment nor the
\* hierarchy and its result is a function of the hierarchy and the
\* environment's scope node; no queue_output, new_child or flush changes
\* what the same call on the same environment gives, node or failure.
C25_ResolutionIsPure ==
    /\ [][(call.op = "none" /\ call'.op = "resolve_identifier_path") =>
             /\ envs' = envs
             /\ nodes' = nodes
             /\ call'.resolved
                  = resolve_proto_type(envs[call'.env].type_context, call'.path)
             /\ call'.result
                  = resolve_identifier_path(envs[call'.env].type_context, call'.path)]_vars
    /\ [][(pc = "ready" /\ envs' # envs) =>
             /\ nodes' = nodes
             /\ \A e \in {x \in 1..Len(envs) : envs'[x] # envs[x]} : \A path \in Paths :
                   resolve_proto_type(envs'[e].type_context, path)
                       = resolve_proto_type(envs[e].type_context, path)]_vars

\* Foo.Bar was resolved from the root environment to the node of Bar after
\* two child environments were made and an output was queued on the root
C25_Witness ==
    /\ call.op = "resolve_identifier_path"
    /\ call.env = 1
    /\ call.path = JoinDot(<<Foo, Bar>>)
    /\ call.resolved = 3
    /\ call.result = Returned(Foo \o <<"_">> \o Bar)
    /\ Len(envs[1].children) = 2
    /\ envs[1].queued_outputs # <<>>

----------------------------------------------------------------------------
(* C26 *)

RECURSIVE SubtreeIn(_, _)
\* an environment of the arena es and the environments below it
SubtreeIn(es, e) ==
    {e} \cup UNION {SubtreeIn(es, es[e].children[i]) : i \in 1..Len(es[e].children)}

\* the environments that the step has created
Created == {x \in 1..Len(envs') : x > Len(envs)}

\* C26: after flush_queued_ops_deep has returned successfully on an
\* environment, and after flush_queued_outputs_deep has returned, the queue
\* of every environment of its subtree is empty, the environments and
\* operations created while the flush was running included, and a deep flush
\* repeated at once returns the empty sequence and changes nothing.
C26_DeepFlushLeavesNothingPending ==
    /\ [][(call.op = "none" /\ call'.op = "flush_queued_ops_deep" /\ IsOk(call'.result)) =>
             /\ Created \subseteq SubtreeIn(envs', call'.env)
             /\ \A x \in SubtreeIn(envs', call'.env) : envs'[x].queued_ops = <<>>
             /\ flush_queued_ops_deep(envs', call'.env)
                    = [result |-> Returned(<<>>), envs |-> envs']]_vars
    /\ [][(call.op = "none" /\ call'.op = "flush_queued_outputs_deep") =>
             /\ \A x \in SubtreeIn(envs', call'.env) : envs'[x].queued_outputs = <<>>
             /\ flush_queued_outputs_deep(envs', call'.env)
                    = [result |-> <<>>, envs |-> envs']]_vars

\* a deep flush of the root has run the operation that generates Foo, which
\* left a child environment with the operation for Foo.Bar behind, and has
\* run that operation too
C26_Witness ==
    /\ call.op = "flush_queued_ops_deep"
    /\ call.env = 1
    /\ call.result = Returned(<<Output(1, 1), Output(2, 0)>>)
    /\ Len(envs) = 2
    /\ envs[1].children = <<2>>
    /\ envs[2].queued_ops = <<>>

----------------------------------------------------------------------------
(* C27 *)

\* the operations of a queue, as a set
Operations(queued_ops) == {queued_ops[i] : i \in 1..Len(queued_ops)}

\* the operation at position k of the queue of f has failed in the step
\* from es to after: neither it nor an operation with its label is queued
\* any more
Spent(es, after, f, k) == \A op \in Operations(after[f].queued_ops) : op.label # es[f].queued_ops[k].label

\* the operations that were queued on f behind position k are queued still
KeptBehind(es, after, f, k) ==
    \A i \in (k + 1)..Len(es[f].queued_ops) :
        es[f].queued_ops[i] \in Operations(after[f].queued_ops)

\* C27: when a queued operation returns an error during
\* flush_queued_ops_deep, the flush returns that error at once: the failed
\* operation is not queued any more, no operation that was queued later on
\* the same environment has been invoked, so they are all queued still and
\* have created no environment, and the flush has made no environment
\* other than those made by operations in front of the failed one.
C27_ErrorStopsTheFlush ==
    [][(call.op = "none" /\ call'.op = "flush_queued_ops_deep" /\ ~IsOk(call'.result)) =>
          LET f == call'.result.err[1]
              k == call'.result.err[2]
          IN /\ Spent(envs, envs', f, k)
             /\ KeptBehind(envs, envs', f, k)]_vars

\* the flush of one environment has run into the operation that fails after
\* it has invoked the generating operation queued behind it, whose child
\* environment is there with its operation still queued
C27_InvokedBehindTheFailure ==
    /\ call.op = "flush_queued_ops_deep"
    /\ call.env = 1
    /\ call.result = Err(Output(1, 1))
    /\ envs[1].queued_ops = <<>>
    /\ Len(envs) = 2
    /\ envs[2].queued_ops = <<GenThunk(2, 0, 2)>>

----------------------------------------------------------------------------
(* C28 *)

RECURSIVE TopAncestor(_)
\* the top-level declaration that encloses d, d itself when it is top-level
TopAncestor(d) == IF program[d].parent = 0 THEN d ELSE TopAncestor(program[d].parent)

\* Foo { Bar }, Baz { Qux }
TwoFamilies == Schema(<<0, 1, 0, 3>>)

\* C28: in the output of gen_code the units of the top-level declarations
\* come first, in declaration order; every unit of a nested declaration comes
\* after the last top-level unit; and the nested units are grouped by their
\* top-level ancestor, in the declaration order of those ancestors.
\* Foo { Bar }, Baz { Qux } gives Foo, Baz, Foo_Bar, Baz_Qux.
C28_TopLevelFirst ==
    Succeeded =>
        /\ \E unit \in [Decls -> 1..Len(result)] :
              /\ \A d, n \in Decls : d # n => unit[d] # unit[n]
              /\ \A d \in Decls : UnitNamed(result[unit[d]], ReportedName(d))
              /\ \A i \in 1..Len(Types(0)) : unit[Types(0)[i]] = i
              /\ \A d \in Decls : program[d].parent # 0 => unit[d] > Len(Types(0))
              /\ \A d, n \in Decls :
                    (program[d].parent # 0 /\ program[n].parent # 0
                        /\ TopAncestor(d) < TopAncestor(n)) => unit[d] < unit[n]
        /\ program = TwoFamilies =>
              /\ Len(result) = 4
              /\ UnitNamed(result[1], Foo)
              /\ UnitNamed(result[2], Baz)
              /\ UnitNamed(result[3], Foo \o <<"_">> \o Bar)
              /\ UnitNamed(result[4], Baz \o <<"_">> \o Qux)

\* gen_code returned the four units of Foo { Bar }, Baz { Qux }
C28_Witness ==
    /\ Succeeded
    /\ program = TwoFamilies
    /\ Len(result) = 4
    /\ Len(Types(0)) = 2

----------------------------------------------------------------------------
(* C29 *)

\* C29: resolve_proto_type never returns the synthetic root node, for any
\* path and from any environment, the root environment included: a resolved
\* node has a fully-qualified identifier, and resolve_identifier_path never
\* aborts with "expected fully qualified identifier on non-root node".
C29_RootNeverResolved ==
    call.op = "resolve_identifier_path" =>
        /\ call.resolved # head
        /\ call.resolved \notin {None, Panic} =>
              /\ nodes[call.resolved].proto_type # None
              /\ nodes[call.resolved].fully_qualified_identifier # NoString
              /\ call.result = Returned(nodes[call.resolved].fully_qualified_identifier[1])
        /\ call.result # Panicked("expected fully qualified identifier on non-root node")

\* a resolution from the root environment, whose scope node is the root,
\* has found a declaration
C29_Witness ==
    /\ call.op = "resolve_identifier_path"
    /\ call.env = 1
    /\ envs[1].type_context = head
    /\ nodes[head].proto_type = None
    /\ call.resolved \notin {None, Panic}
    /\ call.path # <<>>

----------------------------------------------------------------------------
(* C30 *)

\* resolve_proto_type is running
InResolveProtoType == call.op = "resolve_proto_type"

\* the nodes the running walk has been on, and the node it is on
Visited == call.result.walk.visited
Curr == call.result.walk.curr

\* C30: resolve_proto_type terminates for every path and every scope node of
\* a hierarchy built by from_program, with the result the fold defines: the
\* walk for a path part follows the parent links from its start node, is on
\* the start node and on each of its ancestors at most once, and is past the
\* root only after it was on the root.
C30_ResolveTerminates ==
    /\ [](InResolveProtoType =>
             /\ ~call.result.walk.again
             /\ \A i, j \in 1..Len(Visited) : i # j => Visited[i] # Visited[j]
             /\ \A i \in 1..Len(Visited) :
                   /\ Visited[i] \in 1..Len(nodes)
                   /\ nodes[Visited[i]].parent
                         = IF i < Len(Visited) THEN Visited[i + 1] ELSE Curr
             /\ (call.result.walking /\ Curr = None) =>
                   (Visited # <<>> /\ Visited[Len(Visited)] = head))
    /\ [](call.op = "resolved" => call.resolved = resolve_proto_type(call.env, call.path))
    /\ (InResolveProtoType ~> call.op = "resolved")

\* the walk started on a node two levels below the root, was on it, on its
\* parent and on the root, and has stepped past the root
C30_Witness ==
    /\ InResolveProtoType
    /\ call.result.walking
    /\ Curr = None
    /\ Len(Visited) = 3
    /\ Visited[1] = call.env
    /\ Visited[3] = head
====
